---- MODULE Spec2Model ----
(***************************************************************************)
(* Natural-language search for PostgreSQL: the Streamlit request handler,  *)
(* generate_sql_query, get_text_embedding and execute_sql_query of         *)
(* generatequery.py, and the embedding ingestion script database.py.       *)
(*                                                                         *)
(* Python strings are sequences of one-character strings, so that lower(), *)
(* strip(), re.sub, str.replace and the `in` test are computed character   *)
(* by character.  Optional values (None or a value) are sequences of       *)
(* length 0 or 1.  Floats are the integer-valued non-negative ones.        *)
(***************************************************************************)
EXTENDS Integers, Sequences, FiniteSets, TLC

VARIABLES pc, caller, user_input, use_vector_search, sql_query, query_embedding,
          top_k, conn, cur, sent, results, ui, stage, embedCalls, llmCalls,
          connsOpened, previous,
          ipc, table, products, idx, writes, committed

vars == <<pc, caller, user_input, use_vector_search, sql_query, query_embedding,
          top_k, conn, cur, sent, results, ui, stage, embedCalls, llmCalls,
          connsOpened, previous,
          ipc, table, products, idx, writes, committed>>

uiVars == <<pc, caller, user_input, use_vector_search, sql_query, query_embedding,
            top_k, conn, cur, sent, results, ui, stage, embedCalls, llmCalls,
            connsOpened, previous>>

ingestVars == <<ipc, table, products, idx, writes, committed>>

(* ------------------------------ bounds --------------------------------- *)
MaxUserPieces == 2
MaxLLMPieces == 2
MaxDim == 2
MaxRows == 2
MaxTopK == 10
MaxId == 3

(* --------------------------- Python values ----------------------------- *)
None == <<>>
Some(x) == <<x>>

\* Python truthiness of an optional str or list: None and the empty one are falsy.
Truthy(o) == o # None /\ o[1] # <<>>

UpperLetters == <<"A","B","C","D","E","F","G","H","I","J","K","L","M","N","O","P","Q","R","S","T","U","V","W","X","Y","Z">>
LowerLetters == <<"a","b","c","d","e","f","g","h","i","j","k","l","m","n","o","p","q","r","s","t","u","v","w","x","y","z">>
Digits == <<"0","1","2","3","4","5","6","7","8","9">>
Whitespace == {" ", "\n"}

ToLower == [c \in {UpperLetters[i] : i \in 1..26} |-> LowerLetters[CHOOSE i \in 1..26 : UpperLetters[i] = c]]

LowerChar(c) == IF c \in DOMAIN ToLower THEN ToLower[c] ELSE c

\* str.lower()
Lower(s) == [i \in 1..Len(s) |-> LowerChar(s[i])]

StartsWith(s, w) == Len(s) >= Len(w) /\ SubSeq(s, 1, Len(w)) = w

Drop(s, n) == SubSeq(s, n + 1, Len(s))

\* the Python test `w in s` on strings
Contains(s, w) == \E i \in 1..(Len(s) - Len(w) + 1) : SubSeq(s, i, i + Len(w) - 1) = w

Least(S) == CHOOSE i \in S : \A j \in S : i <= j
Greatest(S) == CHOOSE i \in S : \A j \in S : j <= i

\* the positions at which w occurs in s
Occurrences(s, w) == {i \in 1..(Len(s) - Len(w) + 1) : SubSeq(s, i, i + Len(w) - 1) = w}

\* str.strip(): without the leading and the trailing whitespace
Strip(s) ==
  LET ink == {i \in 1..Len(s) : s[i] \notin Whitespace}
  IN IF ink = {} THEN <<>> ELSE SubSeq(s, Least(ink), Greatest(ink))

\* str.replace(old, new): every non-overlapping occurrence, left to right
RECURSIVE Replace(_, _, _)
Replace(s, old, new) ==
  LET occ == Occurrences(s, old)
  IN IF occ = {} THEN s
     ELSE LET i == Least(occ)
          IN SubSeq(s, 1, i - 1) \o new \o Replace(Drop(s, i + Len(old) - 1), old, new)

RECURSIVE DigitsOf(_)
DigitsOf(n) == IF n < 10 THEN <<Digits[n + 1]>> ELSE DigitsOf(n \div 10) \o <<Digits[(n % 10) + 1]>>

\* str(n) of a non-negative int, as an f-string formats it
IntStr(n) == DigitsOf(n)

\* repr of an integer-valued non-negative float: "3.0"
FloatRepr(n) == DigitsOf(n) \o <<".","0">>

(* ------------------------------ constants ------------------------------ *)
similarity_keywords ==
  << <<"s","i","m","i","l","a","r">>, <<"l","i","k","e">>, <<"r","e","l","a","t","e","d">>,
     <<"m","a","t","c","h","i","n","g">>, <<"r","e","l","e","v","a","n","t">> >>

SimilarityTemplate ==
  <<"S","E","L","E","C","T"," ","*"," ","F","R","O","M"," ","p","r","o","d","u","c","t","s"," ","O","R","D","E","R"," ","B","Y"," ","e","m","b","e","d","d","i","n","g"," ","<","=",">"," ","%","s"," ","L","I","M","I","T"," ","5",";">>

Placeholder == <<"%","s">>
LimitFive == <<"L","I","M","I","T"," ","5">>
LimitWord == <<"L","I","M","I","T"," ">>
SelectWord == <<"S","E","L","E","C","T">>
\* the backquote character, which a TLA+ string cannot hold
Backquote == "BACKQUOTE"
FenceSql == <<Backquote, Backquote, Backquote, "s", "q", "l">>
Fence == <<Backquote, Backquote, Backquote>>

DefaultTopK == 1

MsgGenerated == "Generated SQL Query:"
MsgNoResults == "No results found or query execution failed."
MsgInvalid == "Invalid SQL Query!"
MsgFailed == "Failed to generate a valid SQL query."

(* ------------------------------- inputs -------------------------------- *)
SeqsUpTo(S, n) == UNION {[1..k -> S] : k \in 0..n}

RECURSIVE Flatten(_)
Flatten(ps) == IF ps = <<>> THEN <<>> ELSE Head(ps) \o Flatten(Tail(ps))

UserPieces ==
  { <<"L","i","K","E">>, <<"s","i","m","i","l","a","r">>, <<"r","e","l","a">>, <<"t","e","d">>,
    <<"M","a","t","c","h","i","n","g">>, <<"R","E","L","E","V","A","N","T">>,
    <<"c","h","a","i","r","s">>, <<" ">> }

\* what the user may type into the text input
UserTexts == {Flatten(ps) : ps \in SeqsUpTo(UserPieces, MaxUserPieces)}

LLMPieces ==
  { <<"D","R","O","P"," ","T","A","B","L","E"," ","p","r","o","d","u","c","t","s",";">>,
    <<" ","S","E","L","E","C","T"," ","1">>, <<"s","e","l","e","c","t"," ","1">>,
    FenceSql, Fence, <<"\n">> }

\* what model.generate_content may answer: an exception, or a response with a text
LLMReplies == {<<"raise">>} \cup {<<"text", Flatten(ps)>> : ps \in SeqsUpTo(LLMPieces, MaxLLMPieces)}

\* a component of an embedding: a float, or a value numpy cannot read as one
Float(n) == <<"float", n>>
NotANumber == <<"str", 0>>
\* the smallest integer float32 cannot hold: 2^24 + 1
BigFloat == (4096 * 4096) + 1
Components == {Float(1), Float(BigFloat), NotANumber}
Vectors == SeqsUpTo(Components, MaxDim)

\* what genai.embed_content may answer: an exception, a response without the
\* "embedding" field, or a response with it
EmbedReplies == {<<"raise">>, <<"nofield">>} \cup {<<"embedding", v>> : v \in Vectors}

\* what cur.fetchall() may return
RowSets == {[i \in 1..n |-> <<i>>] : n \in 0..MaxRows}

TopKs == 0..MaxTopK

(* --------------------------- generatequery.py --------------------------- *)
get_text_embedding(response) ==
  IF response[1] = "embedding" THEN Some(response[2]) ELSE None

\* the keyword test without lower(): a keyword typed in capitals is missed
UseVectorSearchCaseSensitive(text) ==
  \E w \in 1..Len(similarity_keywords) : Contains(text, similarity_keywords[w])

\* any(word in user_input.lower() for word in similarity_keywords)
UseVectorSearch(text) ==
  \E w \in 1..Len(similarity_keywords) : Contains(Lower(text), similarity_keywords[w])

\* generate_sql_query without its `if query_embedding is None` return
GenerateBranchUnchecked(vector_search, reply) ==
  IF vector_search
  THEN <<Some(SimilarityTemplate), get_text_embedding(reply)>>
  ELSE IF reply[1] = "text" THEN <<Some(Strip(reply[2])), None>> ELSE <<None, None>>

\* the two branches of generate_sql_query: <<sql_query, query_embedding>>; reply is
\* the answer of the collaborator the branch calls
GenerateBranch(vector_search, reply) ==
  IF vector_search
  THEN LET e == get_text_embedding(reply)
       IN IF e = None THEN <<None, None>> ELSE <<Some(SimilarityTemplate), e>>
  ELSE IF reply[1] = "text" THEN <<Some(Strip(reply[2])), None>> ELSE <<None, None>>

generate_sql_query(text, reply) == GenerateBranch(UseVectorSearch(text), reply)

\* re.sub(r"```sql|```", "", s)
\* (the leftmost match is the leftmost ```, taken with a following sql)
RECURSIVE RemoveFences(_)
RemoveFences(s) ==
  LET occ == Occurrences(s, Fence)
  IN IF occ = {} THEN s
     ELSE LET i == Least(occ)
              rest == Drop(s, i - 1)
              n == IF StartsWith(rest, FenceSql) THEN Len(FenceSql) ELSE Len(Fence)
          IN SubSeq(s, 1, i - 1) \o RemoveFences(Drop(rest, n))

CleanQuery(s) == Strip(RemoveFences(s))

\* the handler's gate: "SELECT" in sql_query
GateAccepts(s) == Contains(s, SelectWord)

RECURSIVE Pow2(_)
Pow2(e) == IF e = 0 THEN 1 ELSE 2 * Pow2(e - 1)

RECURSIVE Exponent(_, _)
Exponent(n, e) == IF n < Pow2(24 + e) THEN e ELSE Exponent(n, e + 1)

\* np.float32 of an integer-valued float: 24 bits of mantissa, ties to even
Float32(n) ==
  LET e == Exponent(n, 0)
      q == n \div Pow2(e)
      r == n % Pow2(e)
      up == 2 * r > Pow2(e) \/ (2 * r = Pow2(e) /\ q % 2 = 1)
  IN (IF up THEN q + 1 ELSE q) * Pow2(e)

Numeric(v) == \A i \in 1..Len(v) : v[i][1] = "float"

\* np.array(query_embedding, dtype=np.float32).tolist()
ToFloat32List(v) == [i \in 1..Len(v) |-> Float32(v[i][2])]

RECURSIVE JoinReprs(_)
JoinReprs(fs) ==
  IF fs = <<>> THEN <<>>
  ELSE IF Len(fs) = 1 THEN FloatRepr(fs[1])
  ELSE FloatRepr(fs[1]) \o <<",", " ">> \o JoinReprs(Tail(fs))

\* f"ARRAY{query_embedding}::vector"
EmbeddingStr(fs) ==
  <<"A","R","R","A","Y","[">> \o JoinReprs(fs) \o <<"]",":",":","v","e","c","t","o","r">>

\* the statement without the replacement of "LIMIT 5"
InjectedQueryFixedLimit(query, v, k) ==
  Replace(query, Placeholder, EmbeddingStr(ToFloat32List(v)))

\* the statement execute_sql_query builds when query_embedding is truthy
InjectedQuery(query, v, k) ==
  Replace(Replace(query, Placeholder, EmbeddingStr(ToFloat32List(v))),
          LimitFive, LimitWord \o IntStr(k))

Entry(kind, msg, data) == [kind |-> kind, msg |-> msg, data |-> data]
Report(st, e) == [stage |-> st, kind |-> e.kind, msg |-> e.msg]
NoReport == [stage |-> "none", kind |-> "none", msg |-> ""]

InitUI ==
  /\ pc = "idle"
  /\ caller = "ui"
  /\ user_input = <<>>
  /\ use_vector_search = FALSE
  /\ sql_query = None
  /\ query_embedding = None
  /\ top_k = DefaultTopK
  /\ conn = "None"
  /\ cur = "None"
  /\ sent = <<>>
  /\ results = None
  /\ ui = <<>>
  /\ stage = "none"
  /\ embedCalls = 0
  /\ llmCalls = 0
  /\ connsOpened = 0
  /\ previous = NoReport

\* the Search button with the typed text; generate_sql_query classifies it
Search(text) ==
  /\ pc = "idle"
  /\ pc' = "gen"
  /\ user_input' = text
  /\ use_vector_search' = UseVectorSearch(text)
  /\ UNCHANGED <<caller, sql_query, query_embedding, top_k, conn, cur, sent, results,
                 ui, stage, embedCalls, llmCalls, connsOpened, previous, ingestVars>>

\* generate_sql_query on the vector-search branch
GenSimilarity ==
  /\ pc = "gen"
  /\ use_vector_search
  /\ \E reply \in EmbedReplies :
       LET r == GenerateBranch(use_vector_search, reply)
       IN /\ sql_query' = r[1]
          /\ query_embedding' = r[2]
          /\ stage' = IF r[1] = None THEN "EmbeddingFailed" ELSE "Synthesized"
  /\ embedCalls' = embedCalls + 1
  /\ user_input' = <<>>
  /\ pc' = "handle"
  /\ UNCHANGED <<caller, use_vector_search, top_k, conn, cur, sent, results, ui,
                 llmCalls, connsOpened, previous, ingestVars>>

\* generate_sql_query on the NL-to-SQL branch
GenStructured ==
  /\ pc = "gen"
  /\ ~use_vector_search
  /\ \E reply \in LLMReplies :
       LET r == GenerateBranch(use_vector_search, reply)
       IN /\ sql_query' = r[1]
          /\ query_embedding' = r[2]
          /\ stage' = IF Truthy(r[1]) THEN "Synthesized" ELSE "SynthesisFailed"
  /\ llmCalls' = llmCalls + 1
  /\ user_input' = <<>>
  /\ pc' = "handle"
  /\ UNCHANGED <<caller, use_vector_search, top_k, conn, cur, sent, results, ui,
                 embedCalls, connsOpened, previous, ingestVars>>

\* if sql_query: ... else: st.error("Failed to generate a valid SQL query.")
HandleFailed ==
  /\ pc = "handle"
  /\ ~Truthy(sql_query)
  /\ ui' = Append(ui, Entry("error", MsgFailed, <<>>))
  /\ pc' = "done"
  /\ UNCHANGED <<caller, user_input, use_vector_search, sql_query, query_embedding,
                 top_k, conn, cur, sent, results, stage, embedCalls, llmCalls,
                 connsOpened, previous, ingestVars>>

\* the gate's else branch: st.error("Invalid SQL Query!")
HandleInvalid ==
  /\ pc = "handle"
  /\ Truthy(sql_query)
  /\ LET clean == CleanQuery(sql_query[1])
     IN /\ ~GateAccepts(clean)
        /\ sql_query' = Some(clean)
        /\ ui' = ui \o <<Entry("write", MsgGenerated, clean), Entry("error", MsgInvalid, <<>>)>>
  /\ stage' = "Rejected"
  /\ pc' = "done"
  /\ UNCHANGED <<caller, user_input, use_vector_search, query_embedding, top_k, conn,
                 cur, sent, results, embedCalls, llmCalls, connsOpened, previous,
                 ingestVars>>

\* the gate's then branch: results = execute_sql_query(sql_query, query_embedding)
HandleExecute ==
  /\ pc = "handle"
  /\ Truthy(sql_query)
  /\ LET clean == CleanQuery(sql_query[1])
     IN /\ GateAccepts(clean)
        /\ sql_query' = Some(clean)
        /\ ui' = Append(ui, Entry("write", MsgGenerated, clean))
  /\ top_k' = DefaultTopK
  /\ pc' = "exec_connect"
  /\ UNCHANGED <<caller, user_input, use_vector_search, query_embedding, conn, cur,
                 sent, results, stage, embedCalls, llmCalls, connsOpened, previous,
                 ingestVars>>

(* ------------------------- execute_sql_query --------------------------- *)
\* conn = psycopg2.connect(...); cur = conn.cursor()
ExecConnect ==
  /\ pc = "exec_connect"
  /\ \E ok \in BOOLEAN :
       IF ok
       THEN /\ conn' = "open"
            /\ cur' = "open"
            /\ connsOpened' = connsOpened + 1
            /\ pc' = "exec_run"
       ELSE /\ pc' = "exec_except"
            /\ UNCHANGED <<conn, cur, connsOpened>>
  /\ UNCHANGED <<caller, user_input, use_vector_search, sql_query, query_embedding,
                 top_k, sent, results, ui, stage, embedCalls, llmCalls, previous,
                 ingestVars>>

\* if query_embedding: format the vector, inject it and the limit, cur.execute(sql_query)
ExecRunVector ==
  /\ pc = "exec_run"
  /\ Truthy(query_embedding)
  /\ IF ~Numeric(query_embedding[1])
     THEN /\ pc' = "exec_except"
          /\ sent' = sent
     ELSE /\ sent' = Append(sent, InjectedQuery(sql_query[1], query_embedding[1], top_k))
          /\ \E ok \in BOOLEAN : pc' = IF ok THEN "exec_fetch" ELSE "exec_except"
  /\ UNCHANGED <<caller, user_input, use_vector_search, sql_query, query_embedding,
                 top_k, conn, cur, results, ui, stage, embedCalls, llmCalls,
                 connsOpened, previous, ingestVars>>

\* else: cur.execute(query)
ExecRunVerbatim ==
  /\ pc = "exec_run"
  /\ ~Truthy(query_embedding)
  /\ sent' = Append(sent, sql_query[1])
  /\ \E ok \in BOOLEAN : pc' = IF ok THEN "exec_fetch" ELSE "exec_except"
  /\ UNCHANGED <<caller, user_input, use_vector_search, sql_query, query_embedding,
                 top_k, conn, cur, results, ui, stage, embedCalls, llmCalls,
                 connsOpened, previous, ingestVars>>

\* results = cur.fetchall(); return results
ExecFetch ==
  /\ pc = "exec_fetch"
  /\ \/ \E rows \in RowSets :
          /\ results' = Some(rows)
          /\ stage' = "Executed"
          /\ pc' = "exec_finally"
     \/ /\ pc' = "exec_except"
        /\ UNCHANGED <<results, stage>>
  /\ UNCHANGED <<caller, user_input, use_vector_search, sql_query, query_embedding,
                 top_k, conn, cur, sent, ui, embedCalls, llmCalls, connsOpened,
                 previous, ingestVars>>

\* except Exception as e: print(...); return None
ExecExcept ==
  /\ pc = "exec_except"
  /\ results' = None
  /\ stage' = "ExecutionFailed"
  /\ pc' = "exec_finally"
  /\ UNCHANGED <<caller, user_input, use_vector_search, sql_query, query_embedding,
                 top_k, conn, cur, sent, ui, embedCalls, llmCalls, connsOpened,
                 previous, ingestVars>>

\* execute_sql_query without its finally block
LeftAsIs(c) == c

\* finally: if conn: conn.close().  A psycopg2 cursor is closed once its
\* connection is.
CloseIfOpened(c) == IF c # "None" THEN "closed" ELSE c

ExecFinally ==
  /\ pc = "exec_finally"
  /\ conn' = CloseIfOpened(conn)
  /\ cur' = CloseIfOpened(cur)
  /\ pc' = IF caller = "ui" THEN "handle_result" ELSE "returned"
  /\ UNCHANGED <<caller, user_input, use_vector_search, sql_query, query_embedding,
                 top_k, sent, results, ui, stage, embedCalls, llmCalls, connsOpened,
                 previous, ingestVars>>

\* what the handler shows for the value execute_sql_query returned
ResultEntry(res) ==
  IF Truthy(res) THEN Entry("write", "", res[1]) ELSE Entry("error", MsgNoResults, <<>>)

\* if results: st.write(results) else: st.error("No results found or query execution failed.")
HandleResult ==
  /\ pc = "handle_result"
  /\ ui' = Append(ui, ResultEntry(results))
  /\ stage' = IF results # None THEN "Presented" ELSE stage
  /\ pc' = "done"
  /\ UNCHANGED <<caller, user_input, use_vector_search, sql_query, query_embedding,
                 top_k, conn, cur, sent, results, embedCalls, llmCalls, connsOpened,
                 previous, ingestVars>>

\* the script's run ends: its variables are gone, what it showed stays on the page
\* until the next run
ScriptEnd ==
  /\ pc = "done"
  /\ previous' = Report(stage, ui[Len(ui)])
  /\ pc' = "idle"
  /\ caller' = "ui"
  /\ user_input' = <<>>
  /\ use_vector_search' = FALSE
  /\ sql_query' = None
  /\ query_embedding' = None
  /\ top_k' = DefaultTopK
  /\ conn' = "None"
  /\ cur' = "None"
  /\ sent' = <<>>
  /\ results' = None
  /\ ui' = <<>>
  /\ stage' = "none"
  /\ embedCalls' = 0
  /\ llmCalls' = 0
  /\ connsOpened' = 0
  /\ UNCHANGED ingestVars

\* a call execute_sql_query(template, v, k) of the similarity template by any caller
DirectCall ==
  /\ pc \in {"idle", "returned"}
  /\ \E v \in Vectors, k \in TopKs :
       /\ query_embedding' = Some(v)
       /\ top_k' = k
  /\ sql_query' = Some(SimilarityTemplate)
  /\ caller' = "direct"
  /\ conn' = "None"
  /\ cur' = "None"
  /\ sent' = <<>>
  /\ results' = None
  /\ stage' = "none"
  /\ connsOpened' = 0
  /\ pc' = "exec_connect"
  /\ UNCHANGED <<user_input, use_vector_search, ui, embedCalls, llmCalls, previous,
                 ingestVars>>

Execute == ExecConnect \/ ExecRunVector \/ ExecRunVerbatim \/ ExecFetch \/ ExecExcept \/ ExecFinally

(* ----------------------------- database.py ----------------------------- *)
Names == {"chair", "desk"}
Ids == 1..MaxId

\* the products table: id is its primary key
Tables == UNION {[S -> Names] : S \in SUBSET Ids}

\* embed_content(model=..., content=name)["embedding"], when it succeeds
EmbedContent(name) == <<"embedding-of", name>>

FetchOrders(S) == {p \in [1..Cardinality(S) -> S] : \A i, j \in 1..Cardinality(S) : p[i] = p[j] => i = j}

IngestOff ==
  /\ ipc = "off"
  /\ table = <<>>
  /\ products = <<>>
  /\ idx = 1
  /\ writes = <<>>
  /\ committed = <<>>

InitIngest ==
  /\ ipc = "start"
  /\ table \in Tables
  /\ products = <<>>
  /\ idx = 1
  /\ writes = <<>>
  /\ committed = <<>>

\* cur.execute("SELECT id, name FROM products;"); products = cur.fetchall()
IngestFetch ==
  /\ ipc = "start"
  /\ \E order \in FetchOrders(DOMAIN table) :
       products' = [i \in 1..Len(order) |-> <<order[i], table[order[i]]>>]
  /\ idx' = 1
  /\ ipc' = "loop"
  /\ UNCHANGED <<table, writes, committed, uiVars>>

\* the UPDATE with the embedding computed once, from the first row, outside the loop
UpdateWithFirstEmbedding(row) == <<EmbedContent(products[1][2]), row[1]>>

\* the UPDATE the loop body issues for a row
UpdateFor(row) == <<EmbedContent(row[2]), row[1]>>

\* one iteration: embed the name, UPDATE products SET embedding = %s WHERE id = %s
IngestRow ==
  /\ ipc = "loop"
  /\ idx <= Len(products)
  /\ \E ok \in BOOLEAN :
       IF ok
       THEN /\ writes' = Append(writes, UpdateFor(products[idx]))
            /\ idx' = idx + 1
            /\ ipc' = ipc
       ELSE \* embed_content or cur.execute raises: the script ends, nothing is committed
            /\ ipc' = "crashed"
            /\ UNCHANGED <<writes, idx>>
  /\ UNCHANGED <<table, products, committed, uiVars>>

\* conn.commit(); cur.close(); conn.close()
IngestCommit ==
  /\ ipc = "loop"
  /\ idx > Len(products)
  /\ committed' = writes
  /\ ipc' = "done"
  /\ UNCHANGED <<table, products, idx, writes, uiVars>>

(* ---------------------------- specifications --------------------------- *)
Init == InitUI /\ IngestOff

Next ==
  \/ \E text \in UserTexts : Search(text)
  \/ GenSimilarity
  \/ GenStructured
  \/ HandleFailed
  \/ HandleInvalid
  \/ HandleExecute
  \/ Execute
  \/ HandleResult
  \/ ScriptEnd

Spec == Init /\ [][Next]_vars

ExecNext == DirectCall \/ Execute

ExecSpec == Init /\ [][ExecNext]_vars

IngestInit == InitUI /\ InitIngest

IngestNext == IngestFetch \/ IngestRow \/ IngestCommit

IngestSpec == IngestInit /\ [][IngestNext]_vars

(* ------------------------ reading a sent statement --------------------- *)
IsDigit(c) == \E d \in 1..10 : Digits[d] = c
DigitVal(c) == (CHOOSE d \in 1..10 : Digits[d] = c) - 1

RECURSIVE NatFrom(_, _, _)
NatFrom(s, i, acc) ==
  IF i <= Len(s) /\ IsDigit(s[i]) THEN NatFrom(s, i + 1, (acc * 10) + DigitVal(s[i])) ELSE acc

\* the number after the statement's LIMIT, -1 when it has none
LimitOf(q) ==
  LET occ == Occurrences(q, LimitWord)
  IN IF occ = {} THEN -1
     ELSE LET i == Greatest(occ) + Len(LimitWord)
          IN IF i <= Len(q) /\ IsDigit(q[i]) THEN NatFrom(q, i, 0) ELSE -1

ArrayOpen == <<"A","R","R","A","Y","[">>

RECURSIVE SplitComponents(_)
SplitComponents(inner) ==
  LET occ == Occurrences(inner, <<",", " ">>)
  IN IF inner = <<>> THEN <<>>
     ELSE IF occ = {} THEN <<inner>>
     ELSE <<SubSeq(inner, 1, Least(occ) - 1)>> \o SplitComponents(Drop(inner, Least(occ) + 1))

\* the components of the statement's ARRAY[...] literal, as the store reads them;
\* None when the statement has no such literal
LiteralOf(q) ==
  LET occ == Occurrences(q, ArrayOpen)
  IN IF occ = {} THEN None
     ELSE LET a == Least(occ) + Len(ArrayOpen)
              b == Least({j \in a..Len(q) : q[j] = "]"})
              parts == SplitComponents(SubSeq(q, a, b - 1))
          IN Some([i \in 1..Len(parts) |-> NatFrom(parts[i], 1, 0)])

(* -------------------------------- claims ------------------------------- *)
AfterGenerate == pc \notin {"idle", "gen"}
AfterHandle == pc \notin {"idle", "gen", "handle"}
Shown == <<ui[Len(ui)].kind, ui[Len(ui)].msg>>
Failures == {"EmbeddingFailed", "SynthesisFailed", "Rejected", "ExecutionFailed"}

\* C1: a similarity request whose embedding call failed (an exception, or a response
\* without the embedding field, so that get_text_embedding gave None) ends in a
\* failure message, and opens no store connection and issues no store query.
C1_EmbeddingFailureTouchesNoStore ==
  (caller = "ui" /\ AfterGenerate /\ use_vector_search /\ query_embedding = None)
    => /\ connsOpened = 0
       /\ sent = <<>>
       /\ conn = "None"
       /\ pc \in {"handle", "done"}
       /\ pc = "done" => (ui # <<>> /\ ui[Len(ui)].kind = "error")

C1_Witness ==
  /\ pc = "done"
  /\ use_vector_search
  /\ embedCalls = 1
  /\ query_embedding = None
  /\ stage = "EmbeddingFailed"

\* a text begins, in any letter case, with a read-only statement keyword
BeginsReadOnly(s) == StartsWith(Lower(s), Lower(SelectWord))

\* C2: on the structured path, a returned text that, fences stripped and trimmed, does
\* not begin with a read-only keyword (any case) ends in Rejected and never reaches
\* execute_sql_query: no connection, no statement sent.
C2_NonReadOnlyNeverExecuted ==
  (caller = "ui" /\ AfterHandle /\ ~use_vector_search /\ Truthy(sql_query)
     /\ ~BeginsReadOnly(sql_query[1]))
    => /\ stage = "Rejected"
       /\ pc = "done"
       /\ connsOpened = 0
       /\ sent = <<>>

UpperOf(c) ==
  IF \E i \in 1..26 : LowerLetters[i] = c
  THEN UpperLetters[CHOOSE i \in 1..26 : LowerLetters[i] = c]
  ELSE c

\* the text holds the lower-case word w at position i, each letter in either case
HoldsAt(text, w, i) ==
  /\ i + Len(w) - 1 <= Len(text)
  /\ \A j \in 1..Len(w) : text[i + j - 1] \in {w[j], UpperOf(w[j])}

HasKeywordAnyCase(text) ==
  \E k \in 1..Len(similarity_keywords), i \in 1..Len(text) :
     HoldsAt(text, similarity_keywords[k], i)

\* C3: a text that holds one of the five keywords in any letter case takes the
\* embedding path (the embedding collaborator is called, the NL-to-SQL one is not);
\* a text that holds none, the empty text included, takes the NL-to-SQL path.
C3_ClassificationByKeyword ==
  /\ pc = "gen" => (use_vector_search <=> HasKeywordAnyCase(user_input))
  /\ (caller = "ui" /\ AfterGenerate)
       => IF use_vector_search
          THEN embedCalls = 1 /\ llmCalls = 0
          ELSE embedCalls = 0 /\ llmCalls = 1

C3_Witness ==
  /\ pc = "gen"
  /\ use_vector_search
  /\ \A k \in 1..Len(similarity_keywords) : ~Contains(user_input, similarity_keywords[k])

\* C4: the one statement a similarity request of the handler (which passes no top_k)
\* sends to the store carries LIMIT 5.
C4_DefaultLimitIsFive ==
  (caller = "ui" /\ use_vector_search /\ sent # <<>>)
    => Len(sent) = 1 /\ LimitOf(sent[1]) = 5

\* C5: a request whose statement succeeded with zero rows is told apart from one
\* whose statement failed: execute_sql_query returns another value, and the handler
\* shows something else.
C5_EmptyResultDistinctFromFailure ==
  (pc = "done" /\ stage = "Presented" /\ results = Some(<<>>)
     /\ previous.stage = "ExecutionFailed")
    => /\ results # None
       /\ Shown # <<previous.kind, previous.msg>>

\* C6: once execute_sql_query has returned, on whichever path, no connection and no
\* cursor it opened is still open.
C6_ConnectionAndCursorReleased ==
  pc \in {"handle_result", "returned", "done"} => (conn # "open" /\ cur # "open")

C6_Witness ==
  /\ pc = "handle_result"
  /\ connsOpened = 1
  /\ conn = "closed"
  /\ cur = "closed"
  /\ results = None

\* C7: the four failure outcomes are pairwise distinguishable in what the request
\* reports: two requests that failed at different stages show different things.
C7_FailuresDistinguishable ==
  (pc = "done" /\ stage \in Failures /\ previous.stage \in Failures
     /\ stage # previous.stage)
    => Shown # <<previous.kind, previous.msg>>

\* C8: when the ingestion script completes, every row it read has exactly one write,
\* keyed by the row's id and carrying the embedding of the row's name, no write is
\* for an id it did not read, and the writes are what is committed; when the
\* embedding call fails on a row, nothing is committed.
C8_OneWritePerRow ==
  /\ ipc = "done" =>
       /\ \A r \in 1..Len(products) :
            /\ Cardinality({w \in 1..Len(writes) : writes[w][2] = products[r][1]}) = 1
            /\ \A w \in 1..Len(writes) :
                 writes[w][2] = products[r][1] => writes[w][1] = EmbedContent(table[products[r][1]])
       /\ \A w \in 1..Len(writes) : \E r \in 1..Len(products) : writes[w][2] = products[r][1]
       /\ {products[r][1] : r \in 1..Len(products)} = DOMAIN table
       /\ committed = writes
  /\ ipc = "crashed" => committed = <<>>

C8_Witness ==
  /\ ipc = "done"
  /\ Len(committed) >= 2
  /\ \E a, b \in DOMAIN table : table[a] # table[b]

\* C9 as stated: every call with a non-empty vector v and a top_k k has, when it
\* returns, sent exactly one statement, with limit k and a literal of v's components.
C9_ExactlyOneQuery ==
  (pc = "returned" /\ Truthy(query_embedding) /\ Numeric(query_embedding[1]))
    => /\ Len(sent) = 1
       /\ LimitOf(sent[1]) = top_k
       /\ LiteralOf(sent[1]) = Some(ToFloat32List(query_embedding[1]))

\* C9 as amended: such a call sends at most one statement, and exactly one once its
\* connection to the store has opened; the statement has limit k and a literal with
\* as many components as v, in v's order (each the float32 of v's).
C9_OneQueryOnceConnected ==
  (caller = "direct" /\ Truthy(query_embedding) /\ Numeric(query_embedding[1]))
    => /\ Len(sent) <= 1
       /\ (pc = "returned" /\ connsOpened = 1) => Len(sent) = 1
       /\ \A i \in 1..Len(sent) :
            /\ LimitOf(sent[i]) = top_k
            /\ LiteralOf(sent[i]) # None
            /\ Len(LiteralOf(sent[i])[1]) = Len(query_embedding[1])
            /\ \A j \in 1..Len(query_embedding[1]) :
                 LiteralOf(sent[i])[1][j] = Float32(query_embedding[1][j][2])

C9_Witness ==
  /\ pc = "returned"
  /\ top_k = 5
  /\ Len(sent) = 1
  /\ Len(query_embedding[1]) = MaxDim
  /\ query_embedding[1][1] # query_embedding[1][MaxDim]

\* C10: no statement sent for a similarity request still holds the placeholder: it
\* holds a vector literal instead.
C10_PlaceholderSubstituted ==
  (caller = "ui" /\ use_vector_search)
    => \A i \in 1..Len(sent) :
         ~Contains(sent[i], Placeholder) /\ LiteralOf(sent[i]) # None

====
